---- MODULE Spec2Model ----
(***************************************************************************)
(* circuits.net.socket: the Socket bridge (Socket / Server / Client), its  *)
(* bind() operation and the two relay handlers bind() installs for every   *)
(* bound endpoint, run by a single-threaded event dispatcher.              *)
(***************************************************************************)
EXTENDS Integers, Sequences, FiniteSets, TLC

\* ------------------------------------------------------------------ bounds
MaxBinds == 2      \* bind() calls in one run
MaxFired == 1      \* events fired by the application in one run
MaxRelayed == 2    \* events fired by the relay handlers in one run
MaxBurst == 2      \* events fired on their own channels in one run of SpecOrder

\* ---------------------------------------------------------------- universe
Bridges == {"B1", "B2"}              \* Socket instances
Endpoints == {"S1", "S2"}            \* live transport components
Strangers == {"X"}                   \* a component that is never bound
Fresh == {"N1", "N2"}                \* identities for endpoints bind constructs
Components == Bridges \cup Endpoints \cup Strangers \cup Fresh
Opaque == {"addr"}                   \* a descriptor that is not a component
Descriptors == Endpoints \cup Opaque
ChannelNames == {"main", "server", "client"}
Roles == {"Socket", "Server", "Client"}
None == "None"

\* Socket.events: the names the relay handlers are registered for.
events == {"connect", "disconnect", "connected", "disconnected",
           "read", "error", "write", "close", "ready", "closed"}

\* An event: kind and payload (event.__class__, args), origin
\* (event.value.manager, the component whose fire() sent it), the channel it
\* was fired on, and cause: the id of the event whose handler fired it (0
\* when the application fired it).
NoEvent == [id |-> 0, kind |-> None, payload |-> 0, origin |-> None,
            channel |-> <<>>, cause |-> 0]

NoBind == [bridge |-> None, interface |-> None, result |-> None, socket |-> None]

\* No Response has been constructed.
NoResponse == [stage |-> "none"]

VARIABLES
    channel,    \* component -> its channel attribute (<<>>: not constructed)
    role,       \* bridge -> the class it is an instance of
    _sockets,   \* bridge -> Socket._sockets
    parent,     \* component -> the component it is registered to
    handlers,   \* the installed handlers, in registration order
    queue,      \* events fired and not yet dispatched
    cur,        \* the event being dispatched
    pending,    \* indices into handlers still to run for cur
    trace,      \* every relay handler invocation so far, in order
    nextId,     \* id of the next event
    nfired,     \* events the application has fired
    nbinds,     \* bind() calls so far
    lastBind,   \* the last bind() call: bridge, descriptor, result, endpoint
    response    \* a web Response: its attributes and headers

vars == <<channel, role, _sockets, parent, handlers, queue, cur, pending,
          trace, nextId, nfired, nbinds, lastBind, response>>

\* ------------------------------------------------ endpoint resolution
\* isinstance(interface, BaseComponent)
IsComponent(interface) == interface \in Components

\* Parameters of the module-level parse_interface_type(self, interface) and
\* the number of arguments Server/Client.parse_interface_type call it with.
ParseParams == 2
ParseArgs == 1

\* A Python call: binds the arguments when their number is the number of
\* parameters, raises TypeError otherwise.
ModuleParse(nargs) == IF nargs = ParseParams THEN "ok" ELSE "TypeError"

\* Mutant: the abstract Socket.parse_interface_type returns instead of raising.
parse_interface_type_returns(b) ==
    IF role[b] = "Socket" THEN "ok" ELSE ModuleParse(ParseArgs)

\* self.parse_interface_type(interface), by the class of self.
parse_interface_type(b) ==
    IF role[b] = "Socket" THEN "NotImplementedError"
    ELSE ModuleParse(ParseArgs)

\* id(interface): a token unique to the descriptor object.
Id(interface) == interface

\* Socket.__get_socket_component: [result, socket, channel]. A live
\* component is returned as it is; otherwise the descriptor is parsed and a
\* new endpoint is constructed on the channel '<bridge channel>_<id>'.
NewSocket == CHOOSE n \in Fresh : \A m \in Fresh : channel[m] # <<>> => m # n

get_socket_component(b, interface) ==
    IF IsComponent(interface)
    THEN [result |-> "ok", socket |-> interface, channel |-> channel[interface]]
    ELSE IF parse_interface_type(b) # "ok"
    THEN [result |-> parse_interface_type(b), socket |-> None, channel |-> <<>>]
    ELSE [result |-> "ok", socket |-> NewSocket,
          channel |-> channel[b] \o <<Id(interface)>>]

\* ------------------------------------------------ the relay handlers
\* Mutant: the upward handler is added to the bridge, not to the socket.
UpHandler_on_bridge(b, socket, ch) ==
    [dir |-> "up", owner |-> b, bridge |-> b, socket |-> socket,
     names |-> "events", channel |-> ch]

\* The handler bind() adds to the socket for the socket's channel.
UpHandler(b, socket, ch) ==
    [dir |-> "up", owner |-> socket, bridge |-> b, socket |-> socket,
     names |-> "events", channel |-> ch]

\* The handler bind() adds to the bridge for the bridge's channel.
DownHandler(b, socket, ch) ==
    [dir |-> "down", owner |-> b, bridge |-> b, socket |-> socket,
     names |-> "events", channel |-> ch]

\* Mutant: the upward _handler without its origin test.
UpOutcome_no_origin_test(h, ev) ==
    IF h.owner # h.socket THEN "AssertionError" ELSE "forward"

\* Body of the upward _handler: what it does with event ev.
UpOutcome(h, ev) ==
    IF h.owner # h.socket THEN "AssertionError"
    ELSE IF ev.origin # h.socket THEN "discard"
    ELSE "forward"

\* Mutant: the downward _handler without its last test (origin is not self).
DownOutcome_no_self_test(h, ev) ==
    IF ev.origin \in _sockets[h.bridge] THEN "discard"
    ELSE IF ev.origin = h.socket THEN "discard"
    ELSE "forward"

\* Mutant: the downward _handler testing only for its own socket.
DownOutcome_socket_test_only(h, ev) ==
    IF ev.origin = h.socket THEN "discard" ELSE "forward"

\* Body of the downward _handler: what it does with event ev.
DownOutcome(h, ev) ==
    IF ev.origin \in _sockets[h.bridge] THEN "discard"
    ELSE IF ev.origin = h.socket THEN "discard"
    ELSE IF ev.origin # h.bridge THEN "discard"
    ELSE "forward"

\* Mutant: the copy is constructed without the arguments of the event.
Forwarded_no_args(ev, by, ch) ==
    [id |-> nextId, kind |-> ev.kind, payload |-> 0,
     origin |-> by, channel |-> ch, cause |-> ev.id]

\* event.__class__(*args, **kwargs) fired by `by` on channel ch.
Forwarded(ev, by, ch) ==
    [id |-> nextId, kind |-> ev.kind, payload |-> ev.payload,
     origin |-> by, channel |-> ch, cause |-> ev.id]

\* ------------------------------------------------ the dispatcher
\* Mutant: the handler decorator is given no names, so it matches every kind.
Names_every_kind(h) == events \cup {"ping"}

\* The names a handler was registered for: bind() passes *self.events.
Names(h) == IF h.names = "events" THEN events ELSE {}

\* A handler is run for an event of one of its names fired on its channel.
Matches(h, ev) == ev.kind \in Names(h) /\ ev.channel = h.channel

RECURSIVE MatchingFrom(_, _)
MatchingFrom(i, ev) ==
    IF i > Len(handlers) THEN <<>>
    ELSE (IF Matches(handlers[i], ev) THEN <<i>> ELSE <<>>)
         \o MatchingFrom(i + 1, ev)

NRelayed == Cardinality({i \in 1..Len(trace) : trace[i].outcome = "forward"})

\* ------------------------------------------------------------------ Init
\* The state after construction: every Socket has an empty _sockets and no
\* handler is installed. chans gives the components their channels, roles
\* gives the bridges their classes.
Constructed(chans, roles) ==
    /\ channel = [c \in Components |-> IF c \in Fresh THEN <<>> ELSE <<chans[c]>>]
    /\ role = roles
    /\ _sockets = [b \in Bridges |-> {}]
    /\ parent = [c \in Components |-> None]
    /\ handlers = <<>>
    /\ queue = <<>>
    /\ cur = NoEvent
    /\ pending = <<>>
    /\ trace = <<>>
    /\ nextId = 1
    /\ nfired = 0
    /\ nbinds = 0
    /\ lastBind = NoBind

\* One bridge of any class; endpoint S1 on any channel, the bridge's included.
Init ==
    /\ response = NoResponse
    /\ \E s1 \in ChannelNames, r \in Roles :
        Constructed([c \in Components \ Fresh |->
                       CASE c = "B1" -> "main" [] c = "B2" -> "server"
                         [] c = "S1" -> s1 [] c = "S2" -> "client"
                         [] OTHER -> "main"],
                    [b \in Bridges |-> r])

\* Two bridges, on one channel or on two; endpoint S1 on a bridge's channel
\* or on one of its own.
InitTwo ==
    /\ response = NoResponse
    /\ \E s1 \in {"main", "server"}, b2 \in {"main", "server"} :
        Constructed([c \in Components \ Fresh |->
                       CASE c = "B1" -> "main" [] c = "B2" -> b2
                         [] c = "S1" -> s1 [] c = "S2" -> "client"
                         [] OTHER -> "main"],
                    [b \in Bridges |-> "Socket"])

\* --------------------------------------------------------------- actions
\* Mutant: bind assigns a new set holding the socket instead of adding to
\* _sockets.
Bind_replaces_registry(b, interface) ==
    /\ nbinds < MaxBinds
    /\ nbinds' = nbinds + 1
    /\ LET r == get_socket_component(b, interface) IN
       /\ lastBind' = [bridge |-> b, interface |-> interface,
                       result |-> r.result, socket |-> r.socket]
       /\ IF r.result # "ok"
          THEN UNCHANGED <<channel, _sockets, parent, handlers>>
          ELSE /\ channel' = [channel EXCEPT ![r.socket] = r.channel]
               /\ parent' = [parent EXCEPT ![r.socket] = b]
               /\ _sockets' = [_sockets EXCEPT ![b] = {r.socket}]
               /\ handlers' = handlers \o <<UpHandler(b, r.socket, r.channel),
                                            DownHandler(b, r.socket, channel[b])>>
    /\ UNCHANGED <<response, role, queue, cur, pending, trace, nextId, nfired>>

\* Mutant: bind installs the upward handler only; the downward handler is
\* left out.
Bind_half_installed(b, interface) ==
    /\ nbinds < MaxBinds
    /\ nbinds' = nbinds + 1
    /\ LET r == get_socket_component(b, interface) IN
       /\ lastBind' = [bridge |-> b, interface |-> interface,
                       result |-> r.result, socket |-> r.socket]
       /\ IF r.result # "ok"
          THEN UNCHANGED <<channel, _sockets, parent, handlers>>
          ELSE /\ channel' = [channel EXCEPT ![r.socket] = r.channel]
               /\ parent' = [parent EXCEPT ![r.socket] = b]
               /\ _sockets' = [_sockets EXCEPT ![b] = @ \cup {r.socket}]
               /\ handlers' = handlers \o <<UpHandler(b, r.socket, r.channel)>>
    /\ UNCHANGED <<response, role, queue, cur, pending, trace, nextId, nfired>>

\* Socket.bind(interface) on bridge b.
Bind(b, interface) ==
    /\ nbinds < MaxBinds
    /\ nbinds' = nbinds + 1
    /\ LET r == get_socket_component(b, interface) IN
       /\ lastBind' = [bridge |-> b, interface |-> interface,
                       result |-> r.result, socket |-> r.socket]
       /\ IF r.result # "ok"
          THEN UNCHANGED <<channel, _sockets, parent, handlers>>
          ELSE /\ channel' = [channel EXCEPT ![r.socket] = r.channel]
               /\ parent' = [parent EXCEPT ![r.socket] = b]
               /\ _sockets' = [_sockets EXCEPT ![b] = @ \cup {r.socket}]
               /\ handlers' = handlers \o <<UpHandler(b, r.socket, r.channel),
                                            DownHandler(b, r.socket, channel[b])>>
    /\ UNCHANGED <<response, role, queue, cur, pending, trace, nextId, nfired>>

\* A component fires an event of its own on some channel.
Fire(c, kind, payload, ch) ==
    /\ nfired < MaxFired
    /\ channel[c] # <<>>
    /\ queue' = Append(queue, [id |-> nextId, kind |-> kind, payload |-> payload,
                               origin |-> c, channel |-> ch, cause |-> 0])
    /\ nextId' = nextId + 1
    /\ nfired' = nfired + 1
    /\ UNCHANGED <<response, channel, role, _sockets, parent, handlers, cur, pending,
                   trace, nbinds, lastBind>>

\* Mutant: the dispatcher takes the event queued last.
Dispatch_newest_first ==
    /\ pending = <<>>
    /\ queue # <<>>
    /\ queue' = SubSeq(queue, 1, Len(queue) - 1)
    /\ pending' = MatchingFrom(1, queue[Len(queue)])
    /\ cur' = queue[Len(queue)]
    /\ UNCHANGED <<response, channel, role, _sockets, parent, handlers, trace, nextId,
                   nfired, nbinds, lastBind>>

\* The dispatcher takes the next event and finds the handlers it matches.
Dispatch ==
    /\ pending = <<>>
    /\ queue # <<>>
    /\ queue' = Tail(queue)
    /\ pending' = MatchingFrom(1, Head(queue))
    /\ cur' = Head(queue)
    /\ UNCHANGED <<response, channel, role, _sockets, parent, handlers, trace, nextId,
                   nfired, nbinds, lastBind>>

\* Mutant: fire() runs the handlers of the copy at once, inside the handler
\* that fired it, instead of queueing the copy.
Run_fire_inline(i, outcome, by, ch) ==
    /\ IF outcome = "forward"
       THEN /\ NRelayed < MaxRelayed
            /\ cur' = Forwarded(cur, by, ch)
            /\ pending' = MatchingFrom(1, Forwarded(cur, by, ch)) \o Tail(pending)
            /\ nextId' = nextId + 1
            /\ trace' = Append(trace, [h |-> i, ev |-> cur, outcome |-> outcome,
                                       fwd |-> Forwarded(cur, by, ch)])
       ELSE /\ UNCHANGED <<cur, nextId>>
            /\ pending' = Tail(pending)
            /\ trace' = Append(trace, [h |-> i, ev |-> cur, outcome |-> outcome,
                                       fwd |-> NoEvent])
    /\ UNCHANGED <<response, channel, role, _sockets, parent, handlers, queue, nfired,
                   nbinds, lastBind>>

\* The dispatcher runs the next handler of the current event: handlers[i],
\* which discards the event or has `by` fire a copy of it on channel ch.
Run(i, outcome, by, ch) ==
    /\ pending' = Tail(pending)
    /\ IF outcome = "forward"
       THEN /\ NRelayed < MaxRelayed
            /\ queue' = Append(queue, Forwarded(cur, by, ch))
            /\ nextId' = nextId + 1
            /\ trace' = Append(trace, [h |-> i, ev |-> cur, outcome |-> outcome,
                                       fwd |-> Forwarded(cur, by, ch)])
       ELSE /\ UNCHANGED <<queue, nextId>>
            /\ trace' = Append(trace, [h |-> i, ev |-> cur, outcome |-> outcome,
                                       fwd |-> NoEvent])
    /\ UNCHANGED <<response, channel, role, _sockets, parent, handlers, cur, nfired,
                   nbinds, lastBind>>

RunUp ==
    /\ pending # <<>>
    /\ handlers[Head(pending)].dir = "up"
    /\ LET h == handlers[Head(pending)] IN
       Run(Head(pending), UpOutcome(h, cur), h.socket, channel[h.bridge])

RunDown ==
    /\ pending # <<>>
    /\ handlers[Head(pending)].dir = "down"
    /\ LET h == handlers[Head(pending)] IN
       Run(Head(pending), DownOutcome(h, cur), h.bridge, channel[h.socket])

\* One bridge: every descriptor, every component firing events of the
\* vocabulary and outside it on every channel.
Next ==
    \/ \E d \in Descriptors : Bind("B1", d)
    \/ \E c \in {"B1"} \cup Endpoints \cup Strangers, k \in {"read", "ping"},
          n \in ChannelNames : Fire(c, k, 1, <<n>>)
    \/ Dispatch
    \/ RunUp
    \/ RunDown

Spec == Init /\ [][Next]_vars

\* Two bridges binding the live endpoints, every bridge and endpoint firing
\* events of the vocabulary on every channel.
NextTwo ==
    \/ \E b \in Bridges, d \in Endpoints : Bind(b, d)
    \/ \E c \in Bridges \cup Endpoints, p \in {2},
          n \in ChannelNames : Fire(c, "write", p, <<n>>)
    \/ Dispatch
    \/ RunUp
    \/ RunDown

SpecTwo == InitTwo /\ [][NextTwo]_vars

\* A component fires a read event with the given payload on its own channel.
FireOwn(c, payload) ==
    /\ nfired < MaxBurst
    /\ queue' = Append(queue, [id |-> nextId, kind |-> "read",
                               payload |-> payload, origin |-> c,
                               channel |-> channel[c], cause |-> 0])
    /\ nextId' = nextId + 1
    /\ nfired' = nfired + 1
    /\ UNCHANGED <<response, channel, role, _sockets, parent, handlers, cur, pending,
                   trace, nbinds, lastBind>>

\* One bridge; endpoint S1 on the bridge's channel or on one of its own.
InitOrder ==
    /\ response = NoResponse
    /\ \E s1 \in {"main", "server"} :
        Constructed([c \in Components \ Fresh |->
                       CASE c = "B1" -> "main" [] c = "B2" -> "server"
                         [] c = "S1" -> s1 [] c = "S2" -> "client"
                         [] OTHER -> "main"],
                    [b \in Bridges |-> "Socket"])

\* One bridge binding the live endpoints; the bridge and endpoint S1 fire
\* several events, of different payloads, each on its own channel.
NextOrder ==
    \/ \E d \in Endpoints : Bind("B1", d)
    \/ \E c \in {"B1", "S1"}, p \in {1, 2} : FireOwn(c, p)
    \/ Dispatch
    \/ RunUp
    \/ RunDown

SpecOrder == InitOrder /\ [][NextOrder]_vars

\* ---------------------------------------------------- Response.prepare
\* Bounds of the bodies a Response is given.
MaxParts == 2      \* strings in a list body
MaxLen == 1        \* encoded length of one string

\* cLength = None
NoLength == -1

\* The status codes tried: informational, with a body, without a body,
\* and 413.
Statuses == {100, 200, 204, 205, 304, 404, 413}

\* The bodies: a list of strings (given by their encoded lengths), a unicode
\* string, a generator, None.
Bodies ==
    [type : {"list"}, parts : UNION {[1..k -> 0..MaxLen] : k \in 0..MaxParts}]
    \cup [type : {"unicode"}, parts : [1..1 -> 0..MaxLen]]
    \cup [type : {"generator", "None"}, parts : {<<>>}]

\* The headers prepare reads or writes, each with the values it was given.
HeaderNames == {"Content-Length", "Transfer-Encoding", "Connection"}

\* Headers the application may have set before prepare is called.
PresetHeaders ==
    {h \in [HeaderNames -> {<<>>, <<"chunked">>, <<"gzip">>, <<"close">>, <<"7">>}] :
        /\ h["Content-Length"] \in {<<>>, <<"7">>}
        /\ h["Transfer-Encoding"] \in {<<>>, <<"chunked">>, <<"gzip">>}
        /\ h["Connection"] \in {<<>>, <<"close">>}}

\* name in headers
Has(h, name) == h[name] # <<>>

\* headers[name] = value
SetItem(h, name, value) == [h EXCEPT ![name] = <<value>>]

\* headers.add_header(name, value)
add_header(h, name, value) == [h EXCEPT ![name] = Append(@, value)]

\* headers.get(name, default): the value of a header given once; a header
\* given several times reads as the list of its values, which is no string.
get(h, name, default) ==
    IF h[name] = <<>> THEN default
    ELSE IF Len(h[name]) = 1 THEN h[name][1] ELSE "list"

\* str(cLength), for the lengths of the bodies above.
str(n) == <<"0", "1", "2", "3", "4", "5", "6", "7", "8", "9">>[n + 1]

RECURSIVE SumLen(_)
SumLen(parts) == IF parts = <<>> THEN 0 ELSE Head(parts) + SumLen(Tail(parts))

\* The length computation at the start of prepare.
ContentLength(body) ==
    IF body.type \in {"list", "unicode"} THEN SumLen(body.parts) ELSE NoLength

\* Mutant: the test for a HEAD request is left out.
CanChunk_any_method(r, cLength) ==
    /\ r.protocol = "HTTP/1.1"
    /\ r.server # None
    /\ ~(cLength = 0)

\* The condition under which prepare chooses chunked transfer.
CanChunk(r, cLength) ==
    /\ r.protocol = "HTTP/1.1"
    /\ r.method # "HEAD"
    /\ r.server # None
    /\ ~(cLength = 0)

\* What prepare does about close and chunked after the length computation:
\* "close", "chunked" or "pass".
Decision(r, h, cLength) ==
    IF r.status = 413 THEN "close"
    ELSE IF ~Has(h, "Content-Length")
    THEN IF r.status < 200 \/ r.status \in {204, 205, 304} THEN "pass"
         ELSE IF CanChunk(r, cLength) THEN "chunked" ELSE "close"
    ELSE "pass"

\* Response.prepare(): the Response after the call. assigned records the
\* attributes among close and chunked that the call has assigned.
prepare(r) ==
    LET cLength == ContentLength(r.body)
        h1 == IF cLength # NoLength
              THEN SetItem(r.headers, "Content-Length", str(cLength))
              ELSE r.headers
        d == Decision(r, h1, cLength)
        close1 == IF d = "close" THEN TRUE ELSE r.close
        h2 == IF d = "chunked"
              THEN add_header(h1, "Transfer-Encoding", "chunked") ELSE h1
        h3 == IF r.server # None /\ ~Has(h2, "Connection")
              THEN IF r.protocol = "HTTP/1.1"
                   THEN IF close1 THEN add_header(h2, "Connection", "close")
                        ELSE h2
                   ELSE IF ~close1
                        THEN add_header(h2, "Connection", "Keep-Alive") ELSE h2
              ELSE h2
        last == get(h3, "Transfer-Encoding", "") = "chunked"
    IN [r EXCEPT !.stage = "prepared",
                 !.headers = h3,
                 !.close = close1,
                 !.chunked = IF d = "chunked" \/ last THEN TRUE ELSE r.chunked,
                 !.assigned = (IF d = "close" THEN {"close"} ELSE {})
                              \cup (IF d = "chunked" \/ last
                                    THEN {"chunked"} ELSE {})]

\* The Responses prepare may be called on: constructed for a request and
\* then given a status, a body, headers and a value of close.
NewResponses ==
    [stage : {"new"}, body : Bodies, status : Statuses,
     protocol : {"HTTP/1.0", "HTTP/1.1"}, method : {"GET", "HEAD"},
     server : {None, "server"}, headers : PresetHeaders,
     close : BOOLEAN, chunked : {FALSE}, assigned : {{}}]

InitPrepare ==
    /\ response \in NewResponses
    /\ Constructed([c \in Components \ Fresh |-> "main"],
                   [b \in Bridges |-> "Socket"])

\* prepare() is called on the Response.
Prepare ==
    /\ response.stage = "new"
    /\ response' = prepare(response)
    /\ UNCHANGED <<channel, role, _sockets, parent, handlers, queue, cur,
                   pending, trace, nextId, nfired, nbinds, lastBind>>

NextPrepare == Prepare

SpecPrepare == InitPrepare /\ [][NextPrepare]_vars

\* ------------------------------------------------------------ properties
Recs == 1..Len(trace)

\* The handler of the i-th invocation.
H(i) == handlers[trace[i].h]

\* Every handler of event ev has run.
Completed(ev) == pending = <<>> \/ cur.id # ev.id

\* The event whose handler fired ev, and the event the application fired at
\* the start of ev's chain.
Trigger(ev) == trace[CHOOSE j \in Recs : trace[j].fwd.id = ev.id].ev

RECURSIVE RootOf(_)
RootOf(ev) == IF ev.cause = 0 THEN ev ELSE RootOf(Trigger(ev))

\* The invocations that forwarded event ev itself.
ForwardsOf(ev) ==
    {j \in Recs : trace[j].ev.id = ev.id /\ trace[j].outcome = "forward"}

\* C1: an event of the vocabulary fired by a bound endpoint E on its own
\* channel is forwarded exactly once to the channel of the bridge, and no
\* event of its chain is fired by the relay onto E's channel.
C1_NoSelfEcho ==
    \A i \in Recs :
        LET h == H(i)
            ev == trace[i].ev
        IN (/\ h.dir = "up"
            /\ ev.cause = 0
            /\ ev.kind \in events
            /\ ev.origin = h.socket
            /\ ev.channel = channel[h.socket]
            /\ Completed(ev))
           => /\ Cardinality({j \in ForwardsOf(ev) :
                                /\ H(j).bridge = h.bridge
                                /\ trace[j].fwd.channel = channel[h.bridge]}) = 1
              /\ \A j \in Recs :
                    (/\ trace[j].outcome = "forward"
                     /\ RootOf(trace[j].ev).id = ev.id)
                    => trace[j].fwd.channel # channel[h.socket]

\* C2: an event of the vocabulary fired by bridge B on its own channel is
\* forwarded exactly once to the channel of every endpoint of B's registry.
C2_FanOut ==
    \A i \in Recs :
        LET h == H(i)
            ev == trace[i].ev
        IN (/\ h.dir = "down"
            /\ ev.cause = 0
            /\ ev.kind \in events
            /\ ev.origin = h.bridge
            /\ ev.channel = channel[h.bridge]
            /\ h.socket \in _sockets[h.bridge]
            /\ Completed(ev))
           => Cardinality({j \in ForwardsOf(ev) :
                             /\ H(j).bridge = h.bridge
                             /\ trace[j].fwd.channel = channel[h.socket]}) = 1

\* C3: with E1 and E2 both bound to bridge B, no event that stems from an
\* event of origin E1 (fired on E1's channel or on B's) is delivered to the
\* handler on E2's channel.
C3_NoLeak ==
    \A i \in Recs :
        LET h == H(i)
            r == RootOf(trace[i].ev)
        IN ~(/\ h.dir = "up"
             /\ r.kind \in events
             /\ r.origin # h.socket
             /\ r.origin \in _sockets[h.bridge]
             /\ r.channel \in {channel[r.origin], channel[h.bridge]}
             /\ \E k \in 1..Len(handlers) :
                   /\ handlers[k].bridge = h.bridge
                   /\ handlers[k].socket = r.origin
                   /\ \/ k < trace[i].h
                      \/ \E j \in Recs : trace[j].h = k /\ trace[j].ev.id = r.id)

\* C4: an event the relay has forwarded is never forwarded again.
C4_NoFeedback ==
    \A i \in Recs : trace[i].outcome = "forward" => trace[i].ev.cause = 0

\* C5: an event on bridge B's channel whose origin is neither B nor an
\* endpoint of B's registry is forwarded by no downward handler of B.
C5_NonMemberInert ==
    \A i \in Recs :
        (/\ H(i).dir = "down"
         /\ trace[i].ev.channel = channel[H(i).bridge]
         /\ trace[i].ev.origin \notin _sockets[H(i).bridge] \cup {H(i).bridge})
        => trace[i].outcome = "discard"

\* A downward handler has been run with an event of the vocabulary whose
\* origin is a stranger.
C5_Witness ==
    \E i \in Recs :
        /\ H(i).dir = "down"
        /\ trace[i].ev.kind \in events
        /\ trace[i].ev.channel = channel[H(i).bridge]
        /\ trace[i].ev.origin \in Strangers
        /\ trace[i].outcome = "discard"

\* C6: an event on bridge B's channel whose origin is an endpoint of B's
\* registry is forwarded by no downward handler of B, to that endpoint or to
\* another.
C6_RegistryDiscard ==
    \A i \in Recs :
        (/\ H(i).dir = "down"
         /\ trace[i].ev.channel = channel[H(i).bridge]
         /\ trace[i].ev.origin \in _sockets[H(i).bridge])
        => trace[i].outcome = "discard"

\* The downward handler of one endpoint has been run with an event whose
\* origin is another endpoint of the same registry, bound before it.
C6_Witness ==
    \E i \in Recs :
        /\ H(i).dir = "down"
        /\ trace[i].ev.channel = channel[H(i).bridge]
        /\ trace[i].ev.origin \in _sockets[H(i).bridge]
        /\ trace[i].ev.origin # H(i).socket
        /\ \E k \in 1..Len(handlers) :
              /\ k < trace[i].h
              /\ handlers[k].bridge = H(i).bridge
              /\ handlers[k].socket = trace[i].ev.origin
        /\ trace[i].outcome = "discard"

\* C7: no relay handler is run with an event whose kind is outside the
\* vocabulary, and no event the relay fires has such a kind.
C7_ClosedVocabulary ==
    /\ \A i \in Recs : trace[i].ev.kind \in events
    /\ \A i \in 1..Len(queue) : queue[i].cause # 0 => queue[i].kind \in events

\* An event outside the vocabulary has been dispatched on a channel that has
\* a relay handler, and no handler was run with it.
C7_Witness ==
    /\ cur.id # 0
    /\ cur.kind \notin events
    /\ pending = <<>>
    /\ \E k \in 1..Len(handlers) : handlers[k].channel = cur.channel
    /\ \A i \in Recs : trace[i].ev.id # cur.id

\* C8: bind with an opaque descriptor on a Server or Client bridge succeeds:
\* a new endpoint on the channel '<bridge channel>_<token>' is in the
\* registry and has its two handlers.
C8_OpaqueBindSucceeds ==
    (/\ lastBind.interface \in Opaque
     /\ role[lastBind.bridge] \in {"Server", "Client"})
    => /\ lastBind.result = "ok"
       /\ lastBind.socket \in Fresh
       /\ lastBind.socket \in _sockets[lastBind.bridge]
       /\ channel[lastBind.socket] =
              channel[lastBind.bridge] \o <<Id(lastBind.interface)>>
       /\ \E k \in 1..Len(handlers) :
             handlers[k] = UpHandler(lastBind.bridge, lastBind.socket,
                                     channel[lastBind.socket])
       /\ \E k \in 1..Len(handlers) :
             handlers[k] = DownHandler(lastBind.bridge, lastBind.socket,
                                       channel[lastBind.bridge])

\* C9: a bind call on the abstract Socket with an opaque descriptor raises
\* NotImplementedError and leaves the registry, the handlers, the channels
\* and the registrations as they were.
C9_FailedBindAtomic ==
    [][(/\ nbinds' = nbinds + 1
        /\ lastBind'.interface \in Opaque
        /\ role[lastBind'.bridge] = "Socket")
       => /\ lastBind'.result = "NotImplementedError"
          /\ _sockets' = _sockets
          /\ handlers' = handlers
          /\ channel' = channel
          /\ parent' = parent]_vars

\* The abstract Socket, with an endpoint already bound, has failed a bind.
C9_Witness ==
    /\ lastBind.interface \in Opaque
    /\ role[lastBind.bridge] = "Socket"
    /\ lastBind.result = "NotImplementedError"
    /\ _sockets[lastBind.bridge] # {}
    /\ Len(handlers) = 2

\* C10: no endpoint is in the registries of two bridges.
C10_OneRegistry ==
    \A e \in Components : Cardinality({b \in Bridges : e \in _sockets[b]}) <= 1

\* The handlers of bridge b, in registration order.
RulesOf(b, hs) == SelectSeq(hs, LAMBDA h : h.bridge = b)

\* The handlers of bridge b for endpoint e in direction d.
Rules(b, e, d) ==
    {k \in 1..Len(handlers) : /\ handlers[k].bridge = b
                              /\ handlers[k].socket = e
                              /\ handlers[k].dir = d}

\* C11: every endpoint of a bridge's registry has exactly one upward handler,
\* on the endpoint's channel, and exactly one downward handler, on the
\* bridge's channel, of that bridge.
C11_TwoRules ==
    \A b \in Bridges : \A e \in _sockets[b] :
        /\ Cardinality(Rules(b, e, "up")) = 1
        /\ Cardinality(Rules(b, e, "down")) = 1
        /\ \A k \in Rules(b, e, "up") : handlers[k].channel = channel[e]
        /\ \A k \in Rules(b, e, "down") : handlers[k].channel = channel[b]

\* C12: in every step a bridge's registry keeps its members, and it gains
\* one only in a bind call on that bridge.
C12_RegistryMonotonic ==
    [][\A b \in Bridges :
          /\ _sockets[b] \subseteq _sockets'[b]
          /\ _sockets'[b] # _sockets[b]
             => /\ nbinds' = nbinds + 1
                /\ lastBind'.bridge = b
                /\ _sockets'[b] = _sockets[b] \cup {lastBind'.socket}]_vars

\* A bind on a bridge whose registry already has a member has added another.
C12_Witness ==
    \E b \in Bridges : /\ Cardinality(_sockets[b]) = 2
                       /\ lastBind.bridge = b
                       /\ lastBind.result = "ok"

\* C13: a bind call on one bridge leaves the registry and the handlers of
\* every other bridge as they were, and no downward handler of one bridge
\* forwards an event whose origin is another bridge.
C13_Independent ==
    /\ [][nbinds' = nbinds + 1
          => \A b \in Bridges \ {lastBind'.bridge} :
                /\ _sockets'[b] = _sockets[b]
                /\ RulesOf(b, handlers') = RulesOf(b, handlers)]_vars
    /\ [](\A i \in Recs :
             (/\ H(i).dir = "down"
              /\ trace[i].ev.origin \in Bridges \ {H(i).bridge})
             => trace[i].outcome = "discard")

\* Both bridges are on one channel and have bound an endpoint, and the
\* downward handler of one has been run with an event fired by the other.
C13_Witness ==
    /\ \A b \in Bridges : _sockets[b] # {}
    /\ \E i \in Recs :
          /\ H(i).dir = "down"
          /\ trace[i].ev.origin \in Bridges \ {H(i).bridge}
          /\ trace[i].ev.channel = channel[trace[i].ev.origin]
          /\ trace[i].outcome = "discard"

\* C14: the upward handler of endpoint E forwards no event whose origin is
\* not E.
C14_UpwardDiscard ==
    \A i \in Recs :
        (H(i).dir = "up" /\ trace[i].ev.origin # H(i).socket)
        => trace[i].outcome = "discard"

\* The upward handler of an endpoint has been run with the copy its bridge
\* relayed down to the endpoint's channel.
C14_Witness ==
    \E i \in Recs :
        /\ H(i).dir = "up"
        /\ trace[i].ev.cause # 0
        /\ trace[i].ev.origin = H(i).bridge
        /\ trace[i].ev.channel = channel[H(i).socket]
        /\ trace[i].outcome = "discard"

\* C16: every installed handler refers to an endpoint that is in the
\* registry of the handler's bridge and has its handler of the other
\* direction installed too; and only a bind call changes a registry.
C16_NoPartialBinding ==
    /\ [](\A k \in 1..Len(handlers) :
             LET h == handlers[k] IN
             /\ h.socket \in _sockets[h.bridge]
             /\ Rules(h.bridge, h.socket, "up") # {}
             /\ Rules(h.bridge, h.socket, "down") # {})
    /\ [][_sockets' # _sockets => nbinds' = nbinds + 1]_vars

\* A handler is about to be run for an endpoint bound while the event was
\* already queued.
C16_Witness ==
    /\ pending # <<>>
    /\ cur.cause = 0
    /\ lastBind.result = "ok"
    /\ handlers[Head(pending)].socket = lastBind.socket
    /\ nbinds = 2

\* C19: every invocation of a relay handler forwards the event or discards
\* it; the assertion of the upward handler never fails.
C19_NoRelayError ==
    \A i \in Recs : trace[i].outcome \in {"forward", "discard"}

\* An endpoint bound twice has had both its upward handlers run.
C19_Witness ==
    \E i, j \in Recs :
        /\ trace[i].h # trace[j].h
        /\ H(i).dir = "up" /\ H(j).dir = "up"
        /\ H(i).socket = H(j).socket
        /\ H(i).bridge = H(j).bridge
        /\ trace[i].ev.id = trace[j].ev.id

\* C15: every forwarded event is a new event with the kind, the payload and
\* the origin of the event that caused it: the endpoint for a copy fired
\* upward on the bridge's channel, the bridge for a copy fired downward on
\* the endpoint's channel.
C15_SameEvent ==
    \A i \in Recs :
        trace[i].outcome = "forward"
        => LET ev == trace[i].ev
               fwd == trace[i].fwd
           IN /\ fwd.id # ev.id
              /\ \A j \in Recs : trace[j].ev.id = fwd.id => j > i
              /\ fwd.kind = ev.kind
              /\ fwd.payload = ev.payload
              /\ fwd.origin = ev.origin
              /\ H(i).dir = "up" => /\ fwd.origin = H(i).socket
                                    /\ fwd.channel = channel[H(i).bridge]
              /\ H(i).dir = "down" => /\ fwd.origin = H(i).bridge
                                      /\ fwd.channel = channel[H(i).socket]

\* Events of both payloads have been forwarded, one upward and one downward.
C15_Witness ==
    \E i, j \in Recs :
        /\ trace[i].outcome = "forward" /\ H(i).dir = "up"
        /\ trace[j].outcome = "forward" /\ H(j).dir = "down"
        /\ trace[i].fwd.payload = 1
        /\ trace[j].fwd.payload = 2

\* C17: the step that delivers a forwarded event runs no handler, and the
\* handler invocation that forwarded it is already complete in the state
\* before that step.
C17_SequentialCausality ==
    [][(cur'.id # cur.id /\ cur'.cause # 0)
       => /\ trace' = trace
          /\ \E i \in Recs : /\ trace[i].fwd.id = cur'.id
                             /\ trace[i].outcome = "forward"
                             /\ trace[i].ev.id = cur'.cause]_vars

\* A forwarded event has been delivered to a handler on its channel.
C17_Witness ==
    \E i \in Recs : /\ trace[i].ev.cause # 0
                    /\ trace[i].ev.id = cur.id

\* C18: when one component fires two events on its own channel, every
\* handler invocation for a copy of the first on a channel comes before
\* every handler invocation for a copy of the second on that channel.
C18_NoReordering ==
    \A i, j \in Recs :
        (/\ trace[i].ev.cause # 0
         /\ trace[j].ev.cause # 0
         /\ Trigger(trace[i].ev).cause = 0
         /\ Trigger(trace[j].ev).cause = 0
         /\ Trigger(trace[i].ev).origin = Trigger(trace[j].ev).origin
         /\ Trigger(trace[i].ev).id < Trigger(trace[j].ev).id
         /\ trace[i].ev.channel = trace[j].ev.channel)
        => i < j

\* The copies of two events of different payloads fired by one component
\* have both been delivered on one channel.
C18_Witness ==
    \E i, j \in Recs :
        /\ trace[i].ev.cause # 0
        /\ trace[j].ev.cause # 0
        /\ Trigger(trace[i].ev).cause = 0
        /\ Trigger(trace[j].ev).cause = 0
        /\ Trigger(trace[i].ev).origin = Trigger(trace[j].ev).origin
        /\ Trigger(trace[i].ev).id < Trigger(trace[j].ev).id
        /\ trace[i].ev.channel = trace[j].ev.channel
        /\ trace[i].ev.payload # trace[j].ev.payload

\* Header name of h has value v among its values.
HasValue(h, name, v) == \E k \in 1..Len(h[name]) : h[name][k] = v

\* The step is a call of prepare.
Prepared == response.stage = "new" /\ response'.stage = "prepared"

\* After the length computation the Response has no Content-Length header.
NoContentLength == ~Has(response'.headers, "Content-Length")

\* The status is one prepare chooses a transfer for: not 413, not below 200,
\* not 204, 205 or 304.
BodyStatus ==
    /\ response.status # 413
    /\ ~(response.status < 200)
    /\ response.status \notin {204, 205, 304}

\* HTTP/1.1, not a HEAD request, and the request has a server.
Chunkable ==
    /\ response.protocol = "HTTP/1.1"
    /\ response.method # "HEAD"
    /\ response.server # None

\* C20: a call of prepare on a Response without Content-Length and with a
\* status that is not 413, not below 200 and not 204, 205 or 304 sets exactly
\* one of chunked and close: chunked, with the header Transfer-Encoding:
\* chunked, iff the protocol is HTTP/1.1, the method is not HEAD and the
\* request has a server, close otherwise; with status 413 it sets close; with
\* Content-Length present and no Transfer-Encoding header preset it sets
\* neither.
C20_ConnectionDecision ==
    [][Prepared =>
        /\ (NoContentLength /\ BodyStatus)
           => IF Chunkable
              THEN /\ response'.assigned = {"chunked"}
                   /\ HasValue(response'.headers, "Transfer-Encoding", "chunked")
              ELSE response'.assigned = {"close"}
        /\ response.status = 413 => "close" \in response'.assigned
        /\ (~NoContentLength /\ ~Has(response.headers, "Transfer-Encoding"))
           => response'.assigned = {}]_vars

\* C20 as amended: prepare sets close iff the status is 413 or, without
\* Content-Length and with a status that is not below 200 and not 204, 205
\* or 304, the response is not chunkable; it sets chunked iff the status is
\* not 413 and, without Content-Length and with such a status, the response
\* is chunkable (and then it adds the header Transfer-Encoding: chunked), or
\* the header Transfer-Encoding: chunked was preset.
C20_Amended ==
    [][Prepared =>
        /\ "close" \in response'.assigned
           <=> \/ response.status = 413
               \/ NoContentLength /\ BodyStatus /\ ~Chunkable
        /\ "chunked" \in response'.assigned
           <=> \/ NoContentLength /\ BodyStatus /\ Chunkable
               \/ get(response.headers, "Transfer-Encoding", "") = "chunked"
        /\ (NoContentLength /\ BodyStatus /\ Chunkable)
           => HasValue(response'.headers, "Transfer-Encoding", "chunked")
        /\ response'.close = (response.close \/ "close" \in response'.assigned)
        /\ response'.chunked = ("chunked" \in response'.assigned)]_vars

\* prepare has set both close and chunked: an HTTP/1.0 response without
\* Content-Length whose Transfer-Encoding: chunked header was preset.
C20_Witness ==
    /\ response.stage = "prepared"
    /\ response.assigned = {"close", "chunked"}
    /\ response.status = 200
    /\ response.protocol = "HTTP/1.0"
    /\ ~Has(response.headers, "Content-Length")

====
